---- MODULE Spec2Model ----
(***************************************************************************)
(* Model of the getINVOLVED connector of RU Events Hub                     *)
(* (backend/connectors/getinvolved.py, backend/run_scraper.py).            *)
(*                                                                         *)
(* Text is modelled as a sequence of one-character strings, so that        *)
(* lower-casing, stripping, prefix and substring tests are computed the    *)
(* way the Python code computes them.  Python's None is the value None.    *)
(***************************************************************************)
EXTENDS Integers, Sequences, FiniteSets, TLC

\* ------------------------------------------------------------------------
\* Program constants (getinvolved.py:30-40, 492)
\* ------------------------------------------------------------------------

\* SOURCE = "getinvolved"
SOURCE == "getinvolved"

\* MAX_FAILURES = 3
MAX_FAILURES == 3

\* the literal 50 of run()'s safety check
SAFETY_FLOOR == 50

\* Python's None.  Every character of a text is a one-character string and a
\* rendered timestamp has two components, so this value is neither.
None == <<"None">>

\* ------------------------------------------------------------------------
\* Text helpers: str.lower, str.strip, str.startswith, the `in` operator
\* ------------------------------------------------------------------------

UpperChars == <<"A","B","C","D","E","F","G","H","I","J","K","L","M",
                "N","O","P","Q","R","S","T","U","V","W","X","Y","Z">>

LowerChars == <<"a","b","c","d","e","f","g","h","i","j","k","l","m",
                "n","o","p","q","r","s","t","u","v","w","x","y","z">>

\* str.lower() on one character
LowerChar(c) ==
  IF \E i \in 1..26 : UpperChars[i] = c
  THEN LowerChars[CHOOSE i \in 1..26 : UpperChars[i] = c]
  ELSE c

\* str.lower()
Lower(s) == [i \in 1..Len(s) |-> LowerChar(s[i])]

\* the characters str.strip() and the regular expression \s treat as whitespace
WhitespaceChars == {" ", "\t", "\n", "\r"}

\* str.strip(): drop leading and trailing whitespace
Strip(s) ==
  LET keep == {i \in 1..Len(s) : s[i] \notin WhitespaceChars}
  IN  IF keep = {} THEN <<>>
      ELSE LET lo == CHOOSE i \in keep : \A j \in keep : i <= j
               hi == CHOOSE i \in keep : \A j \in keep : j <= i
           IN  SubSeq(s, lo, hi)

\* str.startswith(pat)
StartsWith(s, pat) ==
  /\ Len(pat) <= Len(s)
  /\ SubSeq(s, 1, Len(pat)) = pat

\* `kw in s` on strings: kw occurs as a contiguous substring of s
Contains(s, kw) ==
  \/ kw = <<>>
  \/ \E i \in 0..(Len(s) - Len(kw)) :
       /\ s[i + 1] = kw[1]
       /\ SubSeq(s, i + 1, i + Len(kw)) = kw

\* ------------------------------------------------------------------------
\* Campus inference (getinvolved.py:48-116)
\* ------------------------------------------------------------------------

\* CAMPUS_KEYWORDS["College Ave"]
KW_CollegeAve ==
  <<
    <<"S","t","u","d","e","n","t"," ","C","e","n","t","e","r">>,
    <<"S","c","o","t","t"," ","H","a","l","l">>,
    <<"C","o","l","l","e","g","e"," ","A","v","e">>,
    <<"V","o","o","r","h","e","e","s">>,
    <<"O","l","d"," ","Q","u","e","e","n","s">>,
    <<"Z","i","m","m","e","r","l","i">>,
    <<"H","i","l","l","e","l">>,
    <<"A","c","a","d","e","m","i","c"," ","B","u","i","l","d","i","n","g">>,
    <<"M","u","r","r","a","y"," ","H","a","l","l">>,
    <<"D","e","m","a","r","e","s","t">>,
    <<"P","a","u","l"," ","R","o","b","e","s","o","n">>,
    <<"H","a","r","d","e","n","b","e","r","g","h">>,
    <<"C","l","o","t","h","i","e","r">>,
    <<"S","e","m","i","n","a","r","y">>,
    <<"E","a","g","l","e","t","o","n">>,
    <<"C","A","S","C">>,
    <<"S","i","l","v","e","r","s">>,
    <<"C","a","t","h","o","l","i","c"," ","C","e","n","t","e","r">>,
    <<"L","i","n","g","u","i","s","t","i","c">>,
    <<"C","i","v","i","c"," ","S","q","u","a","r","e">>,
    <<"S","t","."," ","P","e","t","e","r">>,
    <<"L","i","t","t","l","e"," ","T","h","e","a","t","r","e">>,
    <<"W","o","m","e","n","'","s"," ","H","o","u","s","e">>,
    <<"A","l","e","x","a","n","d","e","r"," ","L","i","b","r","a","r","y">>,
    <<"N","i","c","h","o","l","a","s"," ","M","u","s","i","c">>,
    <<"M","c","C","o","r","m","i","c","k">>,
    <<"B","l","o","u","s","t","e","i","n">>,
    <<"S","C","&","I">>,
    <<"R","U"," ","C","i","n","e","m","a">>,
    <<"A","r","t"," ","H","i","s","t","o","r","y">>,
    <<"L","o","r","e","e">>,
    <<"F","r","e","n","c","h"," ","S","e","m","i","n","a","r">>,
    <<"S","t","u","d","e","n","t"," ","A","c","t","i","v","i","t","i","e","s"," ","C","e","n","t","e","r">>
  >>

\* CAMPUS_KEYWORDS["Livingston"]
KW_Livingston ==
  <<
    <<"R","A","C">>,
    <<"J","e","r","s","e","y"," ","M","i","k","e">>,
    <<"T","i","l","l","e","t","t">>,
    <<"T","i","l","l","e","t">>,
    <<"L","i","v","i">>,
    <<"L","i","v","i","n","g","s","t","o","n">>,
    <<"R","B","S">>,
    <<"L","u","d","w","i","g">>,
    <<"L","u","c","y"," ","S","t","o","n","e">>,
    <<"H","a","t","c","h","e","r","y">>,
    <<"T","h","e"," ","Y","a","r","d">>,
    <<"G","r","a","d","u","a","t","e"," ","S","t","u","d","e","n","t"," ","L","o","u","n","g","e">>,
    <<"T","h","e"," ","C","a","g","e">>,
    <<"R","i","c","h","a","r","d","s","o","n">>,
    <<"D","S","C"," ","L","o","u","n","g","e">>
  >>

\* CAMPUS_KEYWORDS["Busch"]
KW_Busch ==
  <<
    <<"W","e","r","b","l","i","n">>,
    <<"B","u","s","c","h">>,
    <<"H","i","l","l"," ","C","e","n","t","e","r">>,
    <<"S","E","R","C">>,
    <<"B","S","C">>,
    <<"B","M","E">>,
    <<"B","i","o","m","e","d","i","c","a","l"," ","E","n","g","i","n","e","e","r","i","n","g">>,
    <<"S","e","r","i","n">>,
    <<"R","i","c","h","a","r","d"," ","W","e","e","k","s">>,
    <<"R","e","s","e","a","r","c","h"," ","T","o","w","e","r">>,
    <<"P","r","o","t","e","o","m","i","c","s">>,
    <<"L","i","f","e"," ","S","c","i","e","n","c","e">>,
    <<"C","o","R","E">>,
    <<"R","u","t","g","e","r","s"," ","G","o","l","f">>
  >>

\* CAMPUS_KEYWORDS["Cook/Douglass"]
KW_CookDouglass ==
  <<
    <<"C","o","o","k">>,
    <<"D","o","u","g","l","a","s","s">>,
    <<"H","i","c","k","m","a","n">>,
    <<"P","a","s","s","i","o","n"," ","P","u","d","d","l","e">>,
    <<"R","u","t","h"," ","A","d","a","m","s">>,
    <<"M","a","r","i","n","e"," ","a","n","d"," ","C","o","a","s","t","a","l"," ","S","c","i","e","n","c","e","s">>,
    <<"E","N","R">>,
    <<"R","u","t","g","e","r","s"," ","B","o","t","a","n","i","c","a","l">>,
    <<"A","B","E">>
  >>

\* ONLINE_KEYWORDS
ONLINE_KEYWORDS ==
  <<
    <<"z","o","o","m">>,
    <<"o","n","l","i","n","e">>,
    <<"v","i","r","t","u","a","l">>,
    <<"t","e","a","m","s">>,
    <<"w","e","b","i","n","a","r">>
  >>

\* TBD_PATTERNS
TBD_PATTERNS ==
  <<
    <<"t","b","d">>,
    <<"t","o"," ","b","e"," ","d","e","t","e","r","m","i","n","e","d">>,
    <<"t","o"," ","b","e"," ","a","n","n","o","u","n","c","e","d">>,
    <<"t","b","a">>
  >>

\* OFF_CAMPUS_KEYWORDS
OFF_CAMPUS_KEYWORDS ==
  <<
    <<"E","a","s","t","e","r","n"," ","S","t","a","r"," ","R","e","h","a","b","i","l","i","t","a","t","i","o","n">>,
    <<"M","i","t","s","u","w","a">>,
    <<"L","i","b","e","r","t","y"," ","S","c","i","e","n","c","e"," ","C","e","n","t","e","r">>,
    <<"U","n","i","t","e","d"," ","N","a","t","i","o","n","s">>,
    <<"U","t","i","c","a"," ","U","n","i","v","e","r","s","i","t","y">>,
    <<"B","u","c","c","l","e","u","c","h">>,
    <<"J","o","h","n","s","o","n"," ","P","a","r","k">>,
    <<"N","e","w"," ","O","r","l","e","a","n","s">>,
    <<"J","e","r","s","e","y"," ","C","i","t","y">>,
    <<"N","e","w"," ","Y","o","r","k"," ","C","i","t","y">>,
    <<"N","e","w","a","r","k">>
  >>

\* CAMPUS_KEYWORDS in declaration (dict insertion) order
CAMPUS_KEYWORDS ==
  << [campus |-> "College Ave",   keywords |-> KW_CollegeAve],
     [campus |-> "Livingston",    keywords |-> KW_Livingston],
     [campus |-> "Busch",         keywords |-> KW_Busch],
     [campus |-> "Cook/Douglass", keywords |-> KW_CookDouglass] >>

\* kw.lower() for every keyword of a list
LowerAll(keywords) == [k \in 1..Len(keywords) |-> Lower(keywords[k])]

\* the tables with kw.lower() applied, as the matching loops use them
CAMPUS_KEYWORDS_LOWER ==
  [c \in 1..Len(CAMPUS_KEYWORDS) |-> LowerAll(CAMPUS_KEYWORDS[c].keywords)]

OFF_CAMPUS_KEYWORDS_LOWER == LowerAll(OFF_CAMPUS_KEYWORDS)

\* some keyword of the (lower-cased) list occurs in the lower-cased location
AnyKeywordIn(keywords_lower, loc_lower) ==
  \E k \in 1..Len(keywords_lower) : Contains(loc_lower, keywords_lower[k])

\* the loop over CAMPUS_KEYWORDS.items() from campus c on: the first campus
\* with a matching keyword, or None
RECURSIVE FirstCampus(_, _)
FirstCampus(c, loc_lower) ==
  IF c > Len(CAMPUS_KEYWORDS) THEN None
  ELSE IF AnyKeywordIn(CAMPUS_KEYWORDS_LOWER[c], loc_lower)
    THEN <<CAMPUS_KEYWORDS[c].campus>>
  ELSE FirstCampus(c + 1, loc_lower)

\* infer_campus with the TBD test moved behind the off-campus fallback
infer_campus_tbd_last(location) ==
  IF location = None \/ location = <<>> THEN "Unknown"
  ELSE LET loc_lower == Lower(location)
           campus    == FirstCampus(1, loc_lower)
       IN  IF AnyKeywordIn(ONLINE_KEYWORDS, loc_lower)
             THEN "Online"
           ELSE IF campus # None
             THEN campus[1]
           ELSE IF AnyKeywordIn(OFF_CAMPUS_KEYWORDS_LOWER, loc_lower)
             THEN "Off-Campus"
           ELSE "Unknown"

\* infer_campus without the online check
infer_campus_no_online(location) ==
  IF location = None \/ location = <<>> THEN "Unknown"
  ELSE LET loc_lower == Lower(location)
           campus    == FirstCampus(1, loc_lower)
       IN  IF \E p \in 1..Len(TBD_PATTERNS) : StartsWith(loc_lower, TBD_PATTERNS[p])
             THEN "Unknown"
           ELSE IF campus # None
             THEN campus[1]
           ELSE IF AnyKeywordIn(OFF_CAMPUS_KEYWORDS_LOWER, loc_lower)
             THEN "Off-Campus"
           ELSE "Unknown"

\* infer_campus(location): first matching rule wins
infer_campus(location) ==
  IF location = None \/ location = <<>> THEN "Unknown"
  ELSE LET loc_lower == Lower(location)
           campus    == FirstCampus(1, loc_lower)
       IN  IF \E p \in 1..Len(TBD_PATTERNS) : StartsWith(loc_lower, TBD_PATTERNS[p])
             THEN "Unknown"
           ELSE IF \E k \in 1..Len(ONLINE_KEYWORDS) : Contains(loc_lower, ONLINE_KEYWORDS[k])
             THEN "Online"
           ELSE IF campus # None
             THEN campus[1]
           ELSE IF AnyKeywordIn(OFF_CAMPUS_KEYWORDS_LOWER, loc_lower)
             THEN "Off-Campus"
           ELSE "Unknown"

\* ------------------------------------------------------------------------
\* Stable event id (getinvolved.py:123-125)
\* ------------------------------------------------------------------------

\* make_event_id: the text "title|start_time|source" that is hashed; the
\* SHA-256 prefix of the text is modelled as free of collisions, so the text
\* stands for its digest
make_event_id(title, start_time, source) ==
  title \o <<"|">> \o start_time \o <<"|">> \o <<source>>

\* ------------------------------------------------------------------------
\* Timestamps (getinvolved.py:191-207)
\* ------------------------------------------------------------------------

\* datetime.isoformat() of the UTC instant `hours` (hours since the epoch of
\* the model), rendered as <<day, hour of day>>
isoformat(hours) == <<hours \div 24, hours % 24>>

\* a raw timestamp value: kind is "none" (None), "text" (a string, parseable or
\* not by dateutil), "datetime" or "date"; aware says whether it carries a
\* timezone, off is its UTC offset in hours
RawTime(kind, parseable, day, hour, aware, off) ==
  [kind |-> kind, parseable |-> parseable, day |-> day, hour |-> hour,
   aware |-> aware, off |-> off]

NoTime == RawTime("none", FALSE, 0, 0, FALSE, 0)

\* _to_utc_iso(dt_value)
_to_utc_iso(dt_value) ==
  IF dt_value.kind = "none" THEN None
  ELSE IF dt_value.kind = "text" /\ ~dt_value.parseable THEN None
  ELSE IF dt_value.kind = "date" THEN isoformat(dt_value.day * 24)
  ELSE IF ~dt_value.aware THEN isoformat(dt_value.day * 24 + dt_value.hour)
  ELSE isoformat(dt_value.day * 24 + dt_value.hour - dt_value.off)

\* ------------------------------------------------------------------------
\* Normalisation (getinvolved.py:210-299)
\* ------------------------------------------------------------------------

\* `(x or "").strip()`
StripOrEmpty(x) == IF x = None THEN <<>> ELSE Strip(x)

\* `(x or "").strip() or None`
StripOrNone(x) == IF StripOrEmpty(x) = <<>> THEN None ELSE StripOrEmpty(x)

\* ------------------------------------------------------------------------
\* HTML stripping (getinvolved.py:132-141)
\* ------------------------------------------------------------------------

\* position of the first ">" of s, 0 if there is none
TagEnd(s) ==
  LET ps == {j \in 1..Len(s) : s[j] = ">"}
  IN  IF ps = {} THEN 0 ELSE CHOOSE j \in ps : \A k \in ps : j <= k

\* strip_html with the tags deleted instead of replaced by a space
RECURSIVE SubTags_deleted(_)
SubTags_deleted(s) ==
  IF s = <<>> THEN <<>>
  ELSE IF Head(s) = "<" /\ TagEnd(s) >= 3
    THEN SubTags_deleted(SubSeq(s, TagEnd(s) + 1, Len(s)))
  ELSE <<Head(s)>> \o SubTags_deleted(Tail(s))

\* _HTML_TAG_RE.sub(" ", text): every leftmost match of <[^>]+> becomes a space
RECURSIVE SubTags(_)
SubTags(s) ==
  IF s = <<>> THEN <<>>
  ELSE IF Head(s) = "<" /\ TagEnd(s) >= 3
    THEN <<" ">> \o SubTags(SubSeq(s, TagEnd(s) + 1, Len(s)))
  ELSE <<Head(s)>> \o SubTags(Tail(s))

\* s without its leading whitespace
RECURSIVE SkipWhitespace(_)
SkipWhitespace(s) ==
  IF s = <<>> THEN <<>>
  ELSE IF Head(s) \in WhitespaceChars THEN SkipWhitespace(Tail(s))
  ELSE s

\* _WHITESPACE_RE.sub(" ", cleaned): every run of whitespace becomes a space
RECURSIVE SubWhitespace(_)
SubWhitespace(s) ==
  IF s = <<>> THEN <<>>
  ELSE IF Head(s) \in WhitespaceChars
    THEN <<" ">> \o SubWhitespace(SkipWhitespace(s))
  ELSE <<Head(s)>> \o SubWhitespace(Tail(s))

\* strip_html(text)
strip_html(text) ==
  IF text = None \/ text = <<>> THEN None
  ELSE LET cleaned == Strip(SubWhitespace(SubTags(text)))
       IN  IF cleaned = <<>> THEN None ELSE cleaned

\* ------------------------------------------------------------------------
\* Bounds and the inputs of the model
\* ------------------------------------------------------------------------

\* last reading of the clock (it starts at 1 and stops there)
MaxClock == 2

\* longest raw record list a fetch returns
MaxFeedLen == 2

\* "Zoom Meeting"
LocZoom == <<"Z","o","o","m"," ","M","e","e","t","i","n","g">>

\* "Tillett Hall, Livingston Campus"
LocTillett ==
  <<"T","i","l","l","e","t","t"," ","H","a","l","l",","," ","L","i","v","i",
    "n","g","s","t","o","n"," ","C","a","m","p","u","s">>

\* "TBD - Newark"
LocTbd == <<"T","B","D"," ","-"," ","N","e","w","a","r","k">>

\* "Mixer", " Chess " and a whitespace-only title
TitleMixer == <<"M","i","x","e","r">>

TitleChess == <<" ","C","h","e","s","s"," ">>

TitleBlank == <<" "," ">>

\* raw API records (the JSON objects of a page)
ApiRaw(name, startsOn, endsOn, location) ==
  [name |-> name, startsOn |-> startsOn, endsOn |-> endsOn, location |-> location]

ApiRecords ==
  { ApiRaw(TitleMixer, RawTime("text", TRUE, 1, 18, TRUE, 0), NoTime, LocZoom),
    ApiRaw(TitleBlank, RawTime("text", TRUE, 1, 18, TRUE, 0), NoTime, None) }

\* raw VEVENT components of the calendar feed
IcalRaw(summary, dtstart, dtend, location) ==
  [SUMMARY |-> summary, DTSTART |-> dtstart, DTEND |-> dtend, LOCATION |-> location]

IcalRecords ==
  { IcalRaw(TitleMixer, RawTime("datetime", TRUE, 1, 13, TRUE, -5), NoTime, LocZoom),
    IcalRaw(TitleChess, RawTime("datetime", TRUE, 2, 20, FALSE, 0), NoTime, LocTillett) }

\* the canonical event with the identifier drawn from the time of the fetch
Event_id_from_fetch_time(title, start_iso, end_iso, location, t) ==
  [event_id   |-> make_event_id(title, isoformat(t), SOURCE),
   source     |-> SOURCE,
   title      |-> title,
   start_time |-> start_iso,
   end_time   |-> end_iso,
   location   |-> location,
   campus     |-> infer_campus(location),
   last_seen  |-> isoformat(t)]

\* the canonical event built by both normalisers (the fields the claims read;
\* description, organization, category and source_url are not modelled)
Event(title, start_iso, end_iso, location, t) ==
  [event_id   |-> make_event_id(title, start_iso, SOURCE),
   source     |-> SOURCE,
   title      |-> title,
   start_time |-> start_iso,
   end_time   |-> end_iso,
   location   |-> location,
   campus     |-> infer_campus(location),
   last_seen  |-> isoformat(t)]

\* the value a normaliser returns for a dropped record
Dropped == [event_id |-> None]

\* _normalize_api_event without the check of the title
_normalize_api_event_keeps_blank(raw, t) ==
  LET title     == StripOrEmpty(raw.name)
      start_iso == _to_utc_iso(raw.startsOn)
  IN  IF start_iso = None THEN Dropped
      ELSE Event(title, start_iso, _to_utc_iso(raw.endsOn),
                 StripOrNone(raw.location), t)

\* _normalize_api_event(raw) when the clock reads t
_normalize_api_event(raw, t) ==
  LET title     == StripOrEmpty(raw.name)
      start_iso == _to_utc_iso(raw.startsOn)
  IN  IF title = <<>> THEN Dropped
      ELSE IF start_iso = None THEN Dropped
      ELSE Event(title, start_iso, _to_utc_iso(raw.endsOn),
                 StripOrNone(raw.location), t)

\* _normalize_ical_event with the title taken as it comes, untrimmed
_normalize_ical_event_untrimmed(component, t) ==
  LET title     == IF component.SUMMARY = None THEN <<>> ELSE component.SUMMARY
      start_iso == _to_utc_iso(component.DTSTART)
  IN  IF Strip(title) = <<>> THEN Dropped
      ELSE IF start_iso = None THEN Dropped
      ELSE Event(title, start_iso, _to_utc_iso(component.DTEND),
                 StripOrNone(component.LOCATION), t)

\* _normalize_ical_event(component) when the clock reads t
_normalize_ical_event(component, t) ==
  LET title     == StripOrEmpty(component.SUMMARY)
      start_iso == _to_utc_iso(component.DTSTART)
  IN  IF title = <<>> THEN Dropped
      ELSE IF start_iso = None THEN Dropped
      ELSE Event(title, start_iso, _to_utc_iso(component.DTEND),
                 StripOrNone(component.LOCATION), t)

\* the events kept by the loop `for raw in raw_list: ... if normalized: append`
RECURSIVE NormalizeApiList(_, _)
NormalizeApiList(raw_list, t) ==
  IF raw_list = <<>> THEN <<>>
  ELSE LET e == _normalize_api_event(Head(raw_list), t)
       IN  (IF e = Dropped THEN <<>> ELSE <<e>>) \o NormalizeApiList(Tail(raw_list), t)

\* the events kept by the loop over the calendar's VEVENT components
RECURSIVE NormalizeIcalList(_, _)
NormalizeIcalList(components, t) ==
  IF components = <<>> THEN <<>>
  ELSE LET e == _normalize_ical_event(Head(components), t)
       IN  (IF e = Dropped THEN <<>> ELSE <<e>>) \o NormalizeIcalList(Tail(components), t)

\* all sequences over S of length at most n
SeqsUpTo(S, n) == UNION { [1..k -> S] : k \in 0..n }

\* message of the exception the secondary fetch raises
FeedExcMsg == <<"feed unavailable">>

\* outcome of the primary fetch: a list of raw records, an HTTP error status
\* (requests.HTTPError) or another exception
Outcome(kind, raws, status, msg) ==
  [kind |-> kind, raws |-> raws, status |-> status, msg |-> msg]

PrimaryOutcomes ==
  { Outcome("ok", raws, 200, None) : raws \in SeqsUpTo(ApiRecords, MaxFeedLen) }
    \cup { Outcome("http", <<>>, status, <<"http error">>) : status \in {429, 500} }
    \cup { Outcome("exc", <<>>, 0, <<"timeout">>) }

\* outcome of the secondary fetch: a list of components or any exception
SecondaryOutcomes ==
  { Outcome("ok", raws, 200, None) : raws \in SeqsUpTo(IcalRecords, MaxFeedLen) }
    \cup { Outcome("exc", <<>>, 0, FeedExcMsg) }

\* the secondary fetch when it is not attempted
NotAttempted == Outcome("skipped", <<>>, 0, None)

\* outcome of the store requests of a run: all succeed, or one of them raises
\* (the count when no event was fetched, else the id query or the upsert)
StoreOutcomes(events) ==
  IF events = <<>> THEN {"ok", "count_raises"}
  ELSE {"ok", "select_raises", "upsert_raises"}

\* message of the exception a store request raises
StoreExcMsg == <<"store error">>

\* rows already in the store when the first run starts, n of them
SeedRow(i) ==
  [event_id   |-> make_event_id(<<"s">>, isoformat(i), SOURCE),
   source     |-> SOURCE,
   title      |-> <<"s">>,
   start_time |-> isoformat(i),
   end_time   |-> None,
   location   |-> None,
   campus     |-> "Unknown",
   last_seen  |-> isoformat(0)]

\* the initial populations: empty, one row below the floor of the safety
\* check, at the floor, well above it
SeedSizes == {0, 49, 50, 75}

\* ------------------------------------------------------------------------
\* State
\* ------------------------------------------------------------------------

VARIABLES
  file_status,   \* state.json: "missing", "valid" or "corrupt" (no JSON document)
  file_doc,      \* the entry state[SOURCE] of state.json when it is valid
  store,         \* the rows of the events table
  now,           \* the reading of the clock, in hours
  pc,            \* "idle": no process; "ran": run() has returned to main();
                 \* "killed": the process was killed during run()
  calls,         \* the collaborators run() called, in order
  env,           \* what the collaborators did, for those run() called
  result,        \* what run() returned (or the exception it raised)
  probe,         \* a call of one function on its own: name, argument, value
  pager          \* the position of _fetch_via_api in its pagination loop

vars == <<file_status, file_doc, store, now, pc, calls, env, result, probe, pager>>

\* ------------------------------------------------------------------------
\* State / kill-switch helpers (getinvolved.py:148-184)
\* ------------------------------------------------------------------------

\* the default entry of _load_state
DefaultState ==
  [consecutive_failures |-> 0, kill_switch |-> FALSE,
   last_success |-> None, last_attempt |-> None]

\* _load_state(): the document of the file, or the default
_load_state == IF file_status = "valid" THEN file_doc ELSE DefaultState

\* _record_failure with the threshold test written > instead of >=
_record_failure_gt(s, t) ==
  LET n == s.consecutive_failures + 1
  IN  [s EXCEPT !.consecutive_failures = n,
                !.last_attempt = isoformat(t),
                !.kill_switch = IF n > MAX_FAILURES THEN TRUE ELSE @]

\* _record_failure(state), the clock reading t
_record_failure(s, t) ==
  LET n == s.consecutive_failures + 1
  IN  [s EXCEPT !.consecutive_failures = n,
                !.last_attempt = isoformat(t),
                !.kill_switch = IF n >= MAX_FAILURES THEN TRUE ELSE @]

\* _record_success without the reset of the count
_record_success_keeps_count(s, t) ==
  [s EXCEPT !.kill_switch = FALSE,
            !.last_success = isoformat(t),
            !.last_attempt = isoformat(t)]

\* _record_success(state), the clock reading t
_record_success(s, t) ==
  [s EXCEPT !.consecutive_failures = 0,
            !.kill_switch = FALSE,
            !.last_success = isoformat(t),
            !.last_attempt = isoformat(t)]

\* ------------------------------------------------------------------------
\* Store requests (getinvolved.py:374-420)
\* ------------------------------------------------------------------------

\* _get_stored_count(client): count of the rows of this source
_get_stored_count(st) == Cardinality({r \in st : r.source = SOURCE})

\* the deduplication loop of _upsert_events: first occurrence of each event_id
RECURSIVE Dedup(_, _)
Dedup(events, seen) ==
  IF events = <<>> THEN <<>>
  ELSE IF Head(events).event_id \in seen THEN Dedup(Tail(events), seen)
  ELSE <<Head(events)>> \o Dedup(Tail(events), seen \cup {Head(events).event_id})

\* the elements of a list
Range(seq) == {seq[i] : i \in 1..Len(seq)}

\* _upsert_events without the deduplication loop
_upsert_events_no_dedup(st, events, q) ==
  IF events = <<>>
    THEN [raised |-> FALSE, inserted |-> 0, updated |-> 0, store |-> st,
          calls |-> <<>>]
  ELSE
    LET ids          == {events[i].event_id : i \in 1..Len(events)}
        existing_ids == {r.event_id : r \in {x \in st : x.event_id \in ids}}
        inserted     == Cardinality({i \in 1..Len(events) :
                                       events[i].event_id \notin existing_ids})
        updated      == Len(events) - inserted
    IN  IF q = "select_raises"
          THEN [raised |-> TRUE, inserted |-> 0, updated |-> 0, store |-> st,
                calls |-> <<"select_ids">>]
        ELSE IF q = "upsert_raises"
          THEN [raised |-> TRUE, inserted |-> 0, updated |-> 0, store |-> st,
                calls |-> <<"select_ids", "upsert">>]
        ELSE [raised |-> FALSE, inserted |-> inserted, updated |-> updated,
              store |-> {r \in st : r.event_id \notin ids} \cup Range(events),
              calls |-> <<"select_ids", "upsert">>]

\* _upsert_events(client, events) on the store st; q says which request raises
_upsert_events(st, events, q) ==
  IF events = <<>>
    THEN [raised |-> FALSE, inserted |-> 0, updated |-> 0, store |-> st,
          calls |-> <<>>]
  ELSE
    LET deduped      == Dedup(events, {})
        ids          == {deduped[i].event_id : i \in 1..Len(deduped)}
        existing_ids == {r.event_id : r \in {x \in st : x.event_id \in ids}}
        inserted     == Cardinality({i \in 1..Len(deduped) :
                                       deduped[i].event_id \notin existing_ids})
        updated      == Len(deduped) - inserted
    IN  IF q = "select_raises"
          THEN [raised |-> TRUE, inserted |-> 0, updated |-> 0, store |-> st,
                calls |-> <<"select_ids">>]
        ELSE IF q = "upsert_raises"
          THEN [raised |-> TRUE, inserted |-> 0, updated |-> 0, store |-> st,
                calls |-> <<"select_ids", "upsert">>]
        ELSE [raised |-> FALSE, inserted |-> inserted, updated |-> updated,
              store |-> {r \in st : r.event_id \notin ids} \cup Range(deduped),
              calls |-> <<"select_ids", "upsert">>]

\* ------------------------------------------------------------------------
\* Public entry point (getinvolved.py:427-522)
\* ------------------------------------------------------------------------

\* the summary dict run() returns
Summary(fetched, inserted, updated, source, error) ==
  [returned |-> TRUE, fetched |-> fetched, inserted |-> inserted,
   updated |-> updated, source |-> source, error |-> error]

\* run() left by an exception it does not catch: nothing is returned
Propagated(msg) ==
  [returned |-> FALSE, fetched |-> 0, inserted |-> 0, updated |-> 0,
   source |-> "none", error |-> msg]

\* the message of the kill-switch refusal
KillSwitchMsg(n) == <<"Kill switch is active", n>>

\* the message of the safety check
SafetyMsg(stored) == <<"Fetched 0 events but stored", stored>>

\* what a run does: the document it saves (saved says whether _save_state was
\* called), the store it leaves, the collaborators it called, its result
Effect(saved, doc, st, cs, res) ==
  [saved |-> saved, doc |-> doc, store |-> st, calls |-> cs, result |-> res]

\* the fetch step with `except requests.HTTPError` as the only handler
Fetch_http_only(p, s, t) ==
  IF p.kind = "ok"
    THEN [ok |-> TRUE, events |-> NormalizeApiList(p.raws, t), source |-> "api",
          calls |-> <<"api">>, msg |-> None]
  ELSE IF p.kind = "http" /\ s.kind = "ok"
    THEN [ok |-> TRUE, events |-> NormalizeIcalList(s.raws, t), source |-> "ical",
          calls |-> <<"api", "ical">>, msg |-> None]
  ELSE IF p.kind = "http"
    THEN [ok |-> FALSE, events |-> <<>>, source |-> "none",
          calls |-> <<"api", "ical">>, msg |-> s.msg]
  ELSE [ok |-> FALSE, events |-> <<>>, source |-> "none",
        calls |-> <<"api">>, msg |-> p.msg]

\* the fetch step of run(): primary, then secondary if the primary raised
Fetch(p, s, t) ==
  IF p.kind = "ok"
    THEN [ok |-> TRUE, events |-> NormalizeApiList(p.raws, t), source |-> "api",
          calls |-> <<"api">>, msg |-> None]
  ELSE IF s.kind = "ok"
    THEN [ok |-> TRUE, events |-> NormalizeIcalList(s.raws, t), source |-> "ical",
          calls |-> <<"api", "ical">>, msg |-> None]
  ELSE [ok |-> FALSE, events |-> <<>>, source |-> "none",
        calls |-> <<"api", "ical">>, msg |-> s.msg]

\* the kill-switch refusal counted as one more failure
KillSwitchCheck_counts(state, st) ==
  Effect(TRUE, [state EXCEPT !.consecutive_failures = @ + 1], st, <<>>,
         Summary(0, 0, 0, "none", KillSwitchMsg(state.consecutive_failures)))

\* run(), lines 443-452: the kill-switch refusal
KillSwitchCheck(state, st) ==
  Effect(FALSE, state, st, <<>>,
         Summary(0, 0, 0, "none", KillSwitchMsg(state.consecutive_failures)))

\* both fetches failed, taken for an empty calendar when few rows are stored
TotalFailure_floor(state, st, t, f) ==
  IF _get_stored_count(st) < SAFETY_FLOOR
    THEN Effect(TRUE, _record_success(state, t), st, f.calls,
                Summary(0, 0, 0, "none", None))
  ELSE Effect(TRUE, _record_failure(state, t), st, f.calls,
              Summary(0, 0, 0, "none", f.msg))

\* run(), lines 472-476 and 483-487: both fetches failed
TotalFailure(state, st, t, f) ==
  Effect(TRUE, _record_failure(state, t), st, f.calls,
         Summary(0, 0, 0, "none", f.msg))

\* the safety check with the floor test written > instead of >=
SafetyCheck_gt(state, st, t, f, q) ==
  IF q = "count_raises"
    THEN Effect(FALSE, state, st, f.calls \o <<"count">>, Propagated(StoreExcMsg))
  ELSE IF _get_stored_count(st) > SAFETY_FLOOR
    THEN Effect(TRUE, _record_failure(state, t), st, f.calls \o <<"count">>,
                Summary(0, 0, 0, f.source, SafetyMsg(_get_stored_count(st))))
  ELSE Effect(TRUE, _record_success(state, t), st, f.calls \o <<"count">>,
              Summary(0, 0, 0, f.source, None))

\* run(), lines 489-504: the safety check of a fetch without events
SafetyCheck(state, st, t, f, q) ==
  IF q = "count_raises"
    THEN Effect(FALSE, state, st, f.calls \o <<"count">>, Propagated(StoreExcMsg))
  ELSE IF _get_stored_count(st) >= SAFETY_FLOOR
    THEN Effect(TRUE, _record_failure(state, t), st, f.calls \o <<"count">>,
                Summary(0, 0, 0, f.source, SafetyMsg(_get_stored_count(st))))
  ELSE Effect(TRUE, _record_success(state, t), st, f.calls \o <<"count">>,
              Summary(0, 0, 0, f.source, None))

\* the upsert raised and the error result reports nothing fetched
UpsertFailure_zero_fetched(state, st, t, f, up) ==
  Effect(TRUE, _record_failure(state, t), st, f.calls \o up.calls,
         Summary(0, 0, 0, f.source, StoreExcMsg))

\* the upsert raised and the failure is not recorded
UpsertFailure_unrecorded(state, st, t, f, up) ==
  Effect(FALSE, state, st, f.calls \o up.calls,
         Summary(Len(f.events), 0, 0, f.source, StoreExcMsg))

\* run(), lines 509-513: the upsert raised
UpsertFailure(state, st, t, f, up) ==
  Effect(TRUE, _record_failure(state, t), st, f.calls \o up.calls,
         Summary(Len(f.events), 0, 0, f.source, StoreExcMsg))

\* run(), lines 515-522: the upsert succeeded
UpsertSuccess(state, st, t, f, up) ==
  Effect(TRUE, _record_success(state, t), up.store, f.calls \o up.calls,
         Summary(Len(f.events), up.inserted, up.updated, f.source, None))

\* run(), lines 506-522: the upsert of the fetched events
Upsert(state, st, t, f, q) ==
  CHOOSE eff \in { IF up.raised THEN UpsertFailure(state, st, t, f, up)
                   ELSE UpsertSuccess(state, st, t, f, up) :
                   up \in {_upsert_events(st, f.events, q)} } : TRUE

\* run(client) without the kill-switch check
run_no_kill_switch(state, st, t, f, q) ==
  IF ~f.ok THEN TotalFailure(state, st, t, f)
  ELSE IF Len(f.events) = 0 THEN SafetyCheck(state, st, t, f, q)
  ELSE Upsert(state, st, t, f, q)

\* run(client) from the loaded state, the store st and the clock reading t,
\* when the fetch step does f and the store requests q
run(state, st, t, f, q) ==
  IF state.kill_switch THEN KillSwitchCheck(state, st)
  ELSE IF ~f.ok THEN TotalFailure(state, st, t, f)
  ELSE IF Len(f.events) = 0 THEN SafetyCheck(state, st, t, f, q)
  ELSE Upsert(state, st, t, f, q)

\* what the collaborators did in a run, for those the run called
Observed(cs, p, s, f, q) ==
  [primary   |-> IF "api" \in Range(cs) THEN p.kind ELSE "not_called",
   status    |-> IF "api" \in Range(cs) THEN p.status ELSE 0,
   secondary |-> IF "ical" \in Range(cs) THEN s.kind ELSE "not_called",
   msg       |-> IF "ical" \in Range(cs) THEN s.msg ELSE None,
   events    |-> IF cs = <<>> THEN <<>> ELSE f.events,
   store     |-> IF Range(cs) \cap {"count", "select_ids", "upsert"} = {}
                   THEN "not_called" ELSE q]

\* ------------------------------------------------------------------------
\* Administrative reset (run_scraper.py:60-69)
\* ------------------------------------------------------------------------

\* a reset that clears the switch and keeps the count
_reset_kill_switch_keeps_count(doc) ==
  [doc EXCEPT !.kill_switch = FALSE]

\* a reset that clears the count and leaves the switch
_reset_kill_switch_count_only(doc) ==
  [doc EXCEPT !.consecutive_failures = 0]

\* the loop body of _reset_kill_switch on one entry of the document
_reset_kill_switch(doc) ==
  [doc EXCEPT !.kill_switch = FALSE, !.consecutive_failures = 0]

\* ------------------------------------------------------------------------
\* Specification
\* ------------------------------------------------------------------------

\* no run yet
NoResult == Propagated(None)

\* no collaborator called
NoCalls == Observed(<<>>, NotAttempted, NotAttempted, [events |-> <<>>], "ok")

\* no function is being called on its own
NoProbe == [fn |-> "none", arg |-> None, out |-> None]

\* _fetch_via_api is not running
NoPager == [pc |-> "idle"]

Init ==
  /\ file_status = "missing"
  /\ file_doc = DefaultState
  /\ store \in { {SeedRow(i) : i \in 1..n} : n \in SeedSizes }
  /\ now = 1
  /\ pc = "idle"
  /\ calls = <<>>
  /\ env = NoCalls
  /\ result = NoResult
  /\ probe = NoProbe
  /\ pager = NoPager

\* python backend/run_scraper.py, up to the return of getinvolved.run(client):
\* _load_state, the run, _save_state if it records
Run ==
  /\ pc = "idle"
  /\ \E p \in PrimaryOutcomes :
       \E s \in (IF p.kind = "ok" THEN {NotAttempted} ELSE SecondaryOutcomes) :
         \E f \in {Fetch(p, s, now)} :
           \E q \in StoreOutcomes(f.events) :
             \E eff \in {run(_load_state, store, now, f, q)} :
               /\ file_status' = IF eff.saved THEN "valid" ELSE file_status
               /\ file_doc' = IF eff.saved THEN eff.doc ELSE file_doc
               /\ store' = eff.store
               /\ calls' = eff.calls
               /\ env' = Observed(eff.calls, p, s, f, q)
               /\ result' = eff.result
  /\ pc' = "ran"
  /\ UNCHANGED <<now, probe, pager>>

\* main() after run(): the summary is printed and the process exits
Exit ==
  /\ pc = "ran"
  /\ pc' = "idle"
  /\ calls' = <<>>
  /\ env' = NoCalls
  /\ result' = NoResult
  /\ UNCHANGED <<file_status, file_doc, store, now, probe, pager>>

\* python backend/run_scraper.py --reset-kill-switch
Reset ==
  /\ pc = "idle"
  /\ IF file_status = "valid"
       THEN /\ file_doc' = _reset_kill_switch(file_doc)
            /\ file_status' = file_status
       ELSE UNCHANGED <<file_status, file_doc>>
  /\ UNCHANGED <<store, now, pc, calls, env, result, probe, pager>>

\* time passes between two invocations
Tick ==
  /\ pc = "idle"
  /\ now < MaxClock
  /\ now' = now + 1
  /\ UNCHANGED <<file_status, file_doc, store, pc, calls, env, result, probe, pager>>

Next == Run \/ Exit \/ Reset \/ Tick

Spec == Init /\ [][Next]_vars

\* ------------------------------------------------------------------------
\* Functions called on their own
\* ------------------------------------------------------------------------

\* no run, no file, the clock at its first reading
Quiescent ==
  /\ file_status = "missing"
  /\ file_doc = DefaultState
  /\ now = 1
  /\ pc = "idle"
  /\ calls = <<>>
  /\ env = NoCalls
  /\ result = NoResult

\* a call made on its own: the function, its argument, its value
Probe(fn, arg, out) == [fn |-> fn, arg |-> arg, out |-> out]

\* the function returns to a caller that drops the value
ReturnFromCall ==
  /\ probe # NoProbe
  /\ probe' = NoProbe
  /\ UNCHANGED <<file_status, file_doc, store, now, pc, calls, env, result, pager>>

\* ------------------------------------------------------------------------
\* _upsert_events on its own (getinvolved.py:384-420)
\* ------------------------------------------------------------------------

\* longest batch handed to _upsert_events
MaxBatchLen == 3

\* normalised events of a batch: the same logical event from the API and from
\* the calendar feed (one identifier, two locations), and another event
BatchEvents(t) ==
  { _normalize_api_event(
      ApiRaw(TitleMixer, RawTime("text", TRUE, 1, 18, TRUE, 0), NoTime, LocZoom), t),
    _normalize_ical_event(
      IcalRaw(TitleMixer, RawTime("datetime", TRUE, 1, 13, TRUE, -5), NoTime, LocTillett), t),
    _normalize_ical_event(
      IcalRaw(TitleChess, RawTime("datetime", TRUE, 2, 20, FALSE, 0), NoTime, LocTillett), t) }

\* rows the table may hold before the first call: one of the batch's events
\* as an earlier fetch stored it, and a row that no batch touches
StoredRows ==
  { _normalize_api_event(
      ApiRaw(TitleMixer, RawTime("text", TRUE, 1, 18, TRUE, 0), NoTime, None), 0),
    SeedRow(1) }

UpsertInit ==
  /\ Quiescent
  /\ store \in SUBSET StoredRows
  /\ probe = NoProbe
  /\ pager = NoPager

\* _upsert_events(client, events): the requests answer or one of them raises
CallUpsertEvents ==
  /\ probe = NoProbe
  /\ \E events \in SeqsUpTo(BatchEvents(now), MaxBatchLen) :
       \E q \in {"ok", "select_raises", "upsert_raises"} :
         \E up \in {_upsert_events(store, events, q)} :
           /\ store' = up.store
           /\ probe' = Probe("_upsert_events", events,
                             [raised |-> up.raised, inserted |-> up.inserted,
                              updated |-> up.updated])
  /\ UNCHANGED <<file_status, file_doc, now, pc, calls, env, result, pager>>

UpsertNext == CallUpsertEvents \/ ReturnFromCall

UpsertSpec == UpsertInit /\ [][UpsertNext]_vars

\* ------------------------------------------------------------------------
\* The normalisers on their own (getinvolved.py:210-299)
\* ------------------------------------------------------------------------

\* "Chess", the title " Chess " without its margin
TitleChessTrimmed == <<"C","h","e","s","s">>

\* titles of raw records: absent, empty, whitespace only, plain, with margins
RawTitles == {None, <<>>, TitleBlank, TitleMixer, TitleChess, TitleChessTrimmed}

\* startsOn / endsOn of the API: absent, or a string that dateutil parses or
\* not; 18:00Z, the same instant written 13:00-05:00, and 18:00 without zone
ApiTimes ==
  { NoTime,
    RawTime("text", FALSE, 0, 0, FALSE, 0),
    RawTime("text", TRUE, 1, 18, TRUE, 0),
    RawTime("text", TRUE, 1, 13, TRUE, -5),
    RawTime("text", TRUE, 1, 18, FALSE, 0) }

\* DTSTART / DTEND of the feed: absent, a datetime with or without zone, a date
IcalTimes ==
  { NoTime,
    RawTime("datetime", TRUE, 1, 13, TRUE, -5),
    RawTime("datetime", TRUE, 1, 18, FALSE, 0),
    RawTime("datetime", TRUE, 1, 0, FALSE, 0),
    RawTime("date", TRUE, 1, 0, FALSE, 0) }

\* end times of the raw records: absent or two hours into the next day
ApiEndTimes == {NoTime, RawTime("text", TRUE, 2, 2, TRUE, 0)}

IcalEndTimes == {NoTime, RawTime("datetime", TRUE, 2, 2, TRUE, 0)}

\* locations of the raw records
RawLocations == {None, LocZoom}

ApiInputs ==
  { ApiRaw(name, startsOn, endsOn, location) :
      name \in RawTitles, startsOn \in ApiTimes,
      endsOn \in ApiEndTimes, location \in RawLocations }

IcalInputs ==
  { IcalRaw(summary, dtstart, dtend, location) :
      summary \in RawTitles, dtstart \in IcalTimes,
      dtend \in IcalEndTimes, location \in RawLocations }

NormalizeInit ==
  /\ Quiescent
  /\ store = {}
  /\ probe = NoProbe
  /\ pager = NoPager

\* _normalize_api_event(raw)
CallNormalizeApi ==
  /\ probe = NoProbe
  /\ \E raw \in ApiInputs :
       probe' = Probe("_normalize_api_event", raw, _normalize_api_event(raw, now))
  /\ UNCHANGED <<file_status, file_doc, store, now, pc, calls, env, result, pager>>

\* _normalize_ical_event(component)
CallNormalizeIcal ==
  /\ probe = NoProbe
  /\ \E component \in IcalInputs :
       probe' = Probe("_normalize_ical_event", component,
                      _normalize_ical_event(component, now))
  /\ UNCHANGED <<file_status, file_doc, store, now, pc, calls, env, result, pager>>

NormalizeNext == CallNormalizeApi \/ CallNormalizeIcal \/ ReturnFromCall

NormalizeSpec == NormalizeInit /\ [][NormalizeNext]_vars

\* ------------------------------------------------------------------------
\* infer_campus on its own (getinvolved.py:90-116)
\* ------------------------------------------------------------------------

\* most fragments a location is put together from
MaxParts == 3

\* a fragment of a location and the one rule it can trigger
Fragment(rule, text) == [rule |-> rule, text |-> text]

\* "TBD", "tba", "Zoom", "Scott Hall", "Tillett", "BUSCH", "Cook", "Newark",
\* "Lobby"
LocationFragments ==
  { Fragment("tbd", <<"T","B","D">>),
    Fragment("tbd", <<"t","b","a">>),
    Fragment("online", <<"Z","o","o","m">>),
    Fragment("College Ave", <<"S","c","o","t","t"," ","H","a","l","l">>),
    Fragment("Livingston", <<"T","i","l","l","e","t","t">>),
    Fragment("Busch", <<"B","U","S","C","H">>),
    Fragment("Cook/Douglass", <<"C","o","o","k">>),
    Fragment("off", <<"N","e","w","a","r","k">>),
    Fragment("none", <<"L","o","b","b","y">>) }

\* the fragments written one after the other, ", " between them
RECURSIVE JoinFragments(_)
JoinFragments(parts) ==
  IF parts = <<>> THEN <<>>
  ELSE IF Len(parts) = 1 THEN parts[1].text
  ELSE parts[1].text \o <<",", " ">> \o JoinFragments(Tail(parts))

InferCampusInit ==
  /\ Quiescent
  /\ store = {}
  /\ probe = NoProbe
  /\ pager = NoPager

\* infer_campus(location), on a location put together from fragments
CallInferCampus ==
  /\ probe = NoProbe
  /\ \E parts \in SeqsUpTo(LocationFragments, MaxParts) :
       \E location \in {JoinFragments(parts)} :
         probe' = Probe("infer_campus", [location |-> location, parts |-> parts],
                        infer_campus(location))
  /\ UNCHANGED <<file_status, file_doc, store, now, pc, calls, env, result, pager>>

\* infer_campus(None)
CallInferCampusNone ==
  /\ probe = NoProbe
  /\ probe' = Probe("infer_campus", [location |-> None, parts |-> <<>>],
                    infer_campus(None))
  /\ UNCHANGED <<file_status, file_doc, store, now, pc, calls, env, result, pager>>

InferCampusNext == CallInferCampus \/ CallInferCampusNone \/ ReturnFromCall

InferCampusSpec == InferCampusInit /\ [][InferCampusNext]_vars

\* ------------------------------------------------------------------------
\* strip_html on its own (getinvolved.py:132-141)
\* ------------------------------------------------------------------------

\* longest text handed to strip_html
MaxTextLen == 5

\* the characters of those texts: the two brackets, two letters, two kinds of
\* whitespace
TextChars == {"<", ">", "a", "b", " ", "\n"}

StripHtmlInit ==
  /\ Quiescent
  /\ store = {}
  /\ probe = NoProbe
  /\ pager = NoPager

\* strip_html(text)
CallStripHtml ==
  /\ probe = NoProbe
  /\ \E text \in SeqsUpTo(TextChars, MaxTextLen) :
       probe' = Probe("strip_html", text, strip_html(text))
  /\ UNCHANGED <<file_status, file_doc, store, now, pc, calls, env, result, pager>>

\* strip_html(None)
CallStripHtmlNone ==
  /\ probe = NoProbe
  /\ probe' = Probe("strip_html", None, strip_html(None))
  /\ UNCHANGED <<file_status, file_doc, store, now, pc, calls, env, result, pager>>

StripHtmlNext == CallStripHtml \/ CallStripHtmlNone \/ ReturnFromCall

StripHtmlSpec == StripHtmlInit /\ [][StripHtmlNext]_vars

\* ------------------------------------------------------------------------
\* _fetch_via_api on its own (getinvolved.py:306-349)
\* ------------------------------------------------------------------------

\* events per API page
PAGE_SIZE == 100

\* seconds between paginated requests
PAGE_DELAY == 2

\* most pages with records a server holds
MaxPages == 2

\* largest total a server reports
MaxTotal == 2

\* a count in a JSON body: the set of its value, empty when the key is absent
ReportedCounts == {{}} \cup {{n} : n \in 0..MaxTotal}

\* `a or b` on two such counts and a number: the first that is present and not 0
FirstTruthy(a, b, n) ==
  IF a # {} /\ a # {0} THEN CHOOSE x \in a : TRUE
  ELSE IF b # {} /\ b # {0} THEN CHOOSE x \in b : TRUE
  ELSE n

\* a JSON body: an object, with or without the key "value" and the two total
\* keys, or a list at the root
Body(shape, has_value, value, totalItems, odata_count) ==
  [shape |-> shape, has_value |-> has_value, value |-> value,
   totalItems |-> totalItems, odata_count |-> odata_count]

\* no body received
NoBody == Body("none", FALSE, <<>>, {}, {})

\* the bodies a server may send for a page that holds records, or holds none
Bodies(holds_records) ==
  LET lists == IF holds_records
                 THEN SeqsUpTo(ApiRecords, MaxFeedLen) \ {<<>>}
                 ELSE {<<>>}
  IN  { Body("object", TRUE, v, t, c) :
          v \in lists, t \in ReportedCounts, c \in ReportedCounts }
      \cup (IF holds_records THEN {}
            ELSE { Body("object", FALSE, <<>>, t, c) :
                     t \in ReportedCounts, c \in ReportedCounts })
      \cup { Body("list", FALSE, v, {}, {}) : v \in lists }

\* the loop test `len(events) >= total or not raw_list` without its second half
LoopBreak_total_only(events, total, raw_list) == Len(events) >= total

\* the loop test `len(events) >= total or not raw_list`
LoopBreak(events, total, raw_list) == Len(events) >= total \/ raw_list = <<>>

\* _fetch_via_api in its loop, about to request page 0 of a server that holds
\* records on its first n pages
Paging(n) ==
  [pc |-> "loop", holds |-> n, page |-> 0, events |-> <<>>, log |-> <<>>,
   body |-> NoBody, raw_list |-> <<>>, total |-> 0, exc |-> "none"]

FetchApiInit ==
  /\ Quiescent
  /\ store = {}
  /\ probe = NoProbe
  /\ pager = NoPager

\* _fetch_via_api() is called
StartFetch ==
  /\ pager.pc = "idle"
  /\ \E n \in 0..MaxPages : pager' = Paging(n)
  /\ UNCHANGED <<file_status, file_doc, store, now, pc, calls, env, result, probe>>

\* one iteration of `while True`: sleep unless it is the first page, request,
\* raise_for_status (the response is an HTTP error, or it has a body), read
\* the body, normalise, test the loop condition
FetchPage ==
  /\ pager.pc = "loop"
  /\ pager.page <= MaxPages
  /\ \E log \in { pager.log
                    \o (IF pager.page > 0 THEN << <<"sleep", PAGE_DELAY>> >>
                        ELSE <<>>)
                    \o << <<"get", pager.page * PAGE_SIZE>> >> } :
       \/ pager' = [pager EXCEPT !.pc = "raised", !.log = log,
                                 !.body = NoBody, !.exc = "HTTPError"]
       \/ \E body \in Bodies(pager.page < pager.holds) :
            IF body.shape = "list"
              THEN pager' = [pager EXCEPT !.pc = "raised", !.log = log,
                                          !.body = body, !.exc = "AttributeError"]
            ELSE
              \E raw_list \in { IF body.has_value /\ body.value # <<>>
                                  THEN body.value ELSE <<>> } :
                \E total \in { FirstTruthy(body.totalItems, body.odata_count,
                                           Len(raw_list)) } :
                  \E events \in { pager.events \o NormalizeApiList(raw_list, now) } :
                    pager' = [pager EXCEPT
                                !.pc = IF LoopBreak(events, total, raw_list)
                                         THEN "returned" ELSE "loop",
                                !.log = log, !.body = body, !.raw_list = raw_list,
                                !.total = total, !.events = events,
                                !.page = pager.page + 1]
  /\ UNCHANGED <<file_status, file_doc, store, now, pc, calls, env, result, probe>>

\* run() has the events or the exception
FinishFetch ==
  /\ pager.pc \in {"returned", "raised"}
  /\ pager' = NoPager
  /\ UNCHANGED <<file_status, file_doc, store, now, pc, calls, env, result, probe>>

FetchApiNext == StartFetch \/ FetchPage \/ FinishFetch

\* the loop runs on: an iteration that can be taken is taken
FetchApiSpec == FetchApiInit /\ [][FetchApiNext]_vars /\ WF_vars(FetchPage)

\* ------------------------------------------------------------------------
\* A process killed during run() (getinvolved.py:158-159, 427-522)
\* ------------------------------------------------------------------------

\* where the kill falls in a run with the effects eff: before the store is
\* written, between the store requests and _save_state, inside the write_text
\* of _save_state (the file is truncated, the document is not all there), or
\* after it; a run that records nothing has no write to fall into
\* (file_doc of a "corrupt" file is the document whose write was cut short;
\* _load_state never reads it)
KillPoints(eff) ==
  IF eff.saved THEN {"before_store", "before_save", "during_save", "after_save"}
  ELSE {"before_store", "before_save"}

\* python backend/run_scraper.py, killed before run() returns
RunKilled ==
  /\ pc = "idle"
  /\ \E p \in PrimaryOutcomes :
       \E s \in (IF p.kind = "ok" THEN {NotAttempted} ELSE SecondaryOutcomes) :
         \E f \in {Fetch(p, s, now)} :
           \E q \in StoreOutcomes(f.events) :
             \E eff \in {run(_load_state, store, now, f, q)} :
               \E at \in KillPoints(eff) :
                 /\ store' = IF at = "before_store" THEN store ELSE eff.store
                 /\ file_status' = IF at = "during_save" THEN "corrupt"
                                   ELSE IF at = "after_save" THEN "valid"
                                   ELSE file_status
                 /\ file_doc' = IF at \in {"during_save", "after_save"}
                                  THEN eff.doc ELSE file_doc
  /\ pc' = "killed"
  /\ UNCHANGED <<now, calls, env, result, probe, pager>>

\* the killed process is gone
Reaped ==
  /\ pc = "killed"
  /\ pc' = "idle"
  /\ UNCHANGED <<file_status, file_doc, store, now, calls, env, result, probe, pager>>

CrashNext == Run \/ Exit \/ Reset \/ Tick \/ RunKilled \/ Reaped

\* the program with kills
CrashSpec == Init /\ [][CrashNext]_vars

\* ------------------------------------------------------------------------
\* Vocabulary of the properties
\* ------------------------------------------------------------------------

\* the failure state the next run() will load
Persisted == _load_state

\* a step that is one invocation of run()
RunStep == pc = "idle" /\ pc' = "ran"

\* a step that is one administrative reset
ResetStep == pc = "idle" /\ pc' = "idle" /\ now' = now

\* the primary fetch was called and raised (an HTTP error or anything else)
PrimaryRaised(e) == e.primary \in {"http", "exc"}

\* both fetches were called and both raised
BothFetchesFailed(e) == PrimaryRaised(e) /\ e.secondary = "exc"

\* one of the two fetches returned its events
FetchSucceeded(e) == e.primary = "ok" \/ e.secondary = "ok"

\* the existing-id query or the upsert raised
ReconcileRaised(e) == e.store \in {"select_raises", "upsert_raises"}

\* the source label of the fetch that returned the events
SourceUsed(e) == IF e.primary = "ok" THEN "api" ELSE "ical"

\* the result of a refused run
BlockedResult(n) == Summary(0, 0, 0, "none", KillSwitchMsg(n))

\* ------------------------------------------------------------------------
\* C1
\* ------------------------------------------------------------------------

\* C1: from consecutive_failures = 0 with the kill switch off, each run in
\* which both fetches fail moves the persisted count 0 -> 1 -> 2 -> 3, the
\* third one sets kill_switch, and a run that starts with the switch set after
\* these three calls no fetcher and returns the blocked result (zero counts,
\* an error).
C1_Step ==
  RunStep =>
    /\ (~Persisted.kill_switch /\ BothFetchesFailed(env')) =>
         /\ Persisted.consecutive_failures = 0 =>
              Persisted'.consecutive_failures = 1 /\ ~Persisted'.kill_switch
         /\ Persisted.consecutive_failures = 1 =>
              Persisted'.consecutive_failures = 2 /\ ~Persisted'.kill_switch
         /\ Persisted.consecutive_failures = 2 =>
              Persisted'.consecutive_failures = 3 /\ Persisted'.kill_switch
    /\ (Persisted.kill_switch /\ Persisted.consecutive_failures = 3) =>
         /\ calls' = <<>>
         /\ env'.primary = "not_called" /\ env'.secondary = "not_called"
         /\ result' = BlockedResult(3)
         /\ result'.error # None

C1_ThreeFailuresThenBlocked == [][C1_Step]_vars

\* a fourth run was refused after three failures and no success ever
C1_Witness ==
  /\ pc = "ran"
  /\ calls = <<>>
  /\ result = BlockedResult(3)
  /\ Persisted.kill_switch
  /\ Persisted.consecutive_failures = 3
  /\ Persisted.last_success = None
  /\ store = {}

\* ------------------------------------------------------------------------
\* C2
\* ------------------------------------------------------------------------

\* C2: the kill switch is latched: no step other than the administrative
\* reset (no run, whatever its fetch and store outcomes) takes the persisted
\* kill_switch from true to false.
C2_Step == (Persisted.kill_switch /\ ~ResetStep) => Persisted'.kill_switch

C2_KillSwitchLatched == [][C2_Step]_vars

\* a run took place with the switch set, after an earlier success, and the
\* switch is still set
C2_Witness ==
  /\ pc = "ran"
  /\ Persisted.kill_switch
  /\ Persisted.last_success # None
  /\ result = BlockedResult(3)

\* ------------------------------------------------------------------------
\* C3
\* ------------------------------------------------------------------------

\* C3: a run that starts with the kill switch active calls neither fetcher,
\* makes no store request and leaves state.json (consecutive_failures,
\* kill_switch, last_success, last_attempt) and the store as they were.
C3_Step ==
  (RunStep /\ Persisted.kill_switch) =>
    /\ calls' = <<>>
    /\ env' = NoCalls
    /\ store' = store
    /\ file_status' = file_status
    /\ file_doc' = file_doc

C3_BlockedRunChangesNothing == [][C3_Step]_vars

\* a refused run at a later clock reading than the last recorded attempt
C3_Witness ==
  /\ pc = "ran"
  /\ calls = <<>>
  /\ env = NoCalls
  /\ Persisted.kill_switch
  /\ Persisted.last_attempt # isoformat(now)
  /\ result.error = KillSwitchMsg(Persisted.consecutive_failures)

\* ------------------------------------------------------------------------
\* C4
\* ------------------------------------------------------------------------

\* the run ended in one of the three failure classes: both fetches failed; no
\* event fetched while the stored count is at or above the floor; the store
\* write raised
FailureClass(e, st) ==
  \/ BothFetchesFailed(e)
  \/ /\ FetchSucceeded(e) /\ e.events = <<>> /\ e.store = "ok"
     /\ _get_stored_count(st) >= SAFETY_FLOOR
  \/ FetchSucceeded(e) /\ e.events # <<>> /\ ReconcileRaised(e)

\* C4: every non-blocked run that ends in a failure class takes the persisted
\* consecutive_failures from n to n + 1 and leaves kill_switch true exactly
\* when n + 1 >= MAX_FAILURES.
C4_Step ==
  (RunStep /\ ~Persisted.kill_switch /\ FailureClass(env', store)) =>
    /\ Persisted'.consecutive_failures = Persisted.consecutive_failures + 1
    /\ Persisted'.kill_switch = (Persisted.consecutive_failures + 1 >= MAX_FAILURES)
    /\ result'.returned /\ result'.error # None

C4_FailureIncrements == [][C4_Step]_vars

\* a raising upsert was the third failure
C4_Witness ==
  /\ pc = "ran"
  /\ env.store = "upsert_raises"
  /\ Persisted.consecutive_failures = 3
  /\ Persisted.kill_switch

\* ------------------------------------------------------------------------
\* C5
\* ------------------------------------------------------------------------

\* C5: every run that ends in success (it returned without an error) leaves the
\* persisted consecutive_failures at 0, whatever it was; a run whose primary
\* fetch raised and whose secondary fetch and store requests succeeded is such
\* a success.
C5_Step ==
  (RunStep /\ ~Persisted.kill_switch) =>
    /\ (result'.returned /\ result'.error = None) =>
         Persisted'.consecutive_failures = 0
    /\ (PrimaryRaised(env') /\ env'.secondary = "ok" /\ env'.events # <<>>
          /\ env'.store = "ok") =>
         /\ result'.returned /\ result'.error = None
         /\ Persisted'.consecutive_failures = 0

C5_SuccessResets == [][C5_Step]_vars

\* a success through the secondary fetcher
C5_Witness ==
  /\ pc = "ran"
  /\ PrimaryRaised(env) /\ env.secondary = "ok"
  /\ result.returned /\ result.error = None /\ result.fetched = 1
  /\ Persisted.consecutive_failures = 0
  /\ Persisted.last_success = isoformat(now)

\* ------------------------------------------------------------------------
\* C6
\* ------------------------------------------------------------------------

\* C6: in every non-blocked run the primary fetch is called first; the
\* secondary fetch is called (second) if and only if the primary raised,
\* whether an HTTP error or another exception; if the secondary raises too, the
\* run records one failure, makes no store request and returns zero counts
\* with the secondary's message as the error.
C6_Step ==
  (RunStep /\ ~Persisted.kill_switch) =>
    /\ Len(calls') >= 1 /\ calls'[1] = "api"
    /\ env'.primary \in {"ok", "http", "exc"}
    /\ PrimaryRaised(env') <=> "ical" \in Range(calls')
    /\ "ical" \in Range(calls') => calls'[2] = "ical"
    /\ BothFetchesFailed(env') =>
         /\ Persisted'.consecutive_failures = Persisted.consecutive_failures + 1
         /\ calls' = <<"api", "ical">>
         /\ store' = store
         /\ result' = Summary(0, 0, 0, result'.source, env'.msg)
         /\ env'.msg # None

C6_PrimaryThenSecondary == [][C6_Step]_vars

\* the primary raised something that is no HTTP error, the secondary raised too
C6_Witness ==
  /\ pc = "ran"
  /\ env.primary = "exc" /\ env.secondary = "exc"
  /\ calls = <<"api", "ical">>
  /\ result = Summary(0, 0, 0, "none", FeedExcMsg)

\* ------------------------------------------------------------------------
\* C7
\* ------------------------------------------------------------------------

\* the scenario: the primary raised HTTP 429, the secondary returned two
\* events, at "Zoom Meeting" and at "Tillett Hall, Livingston Campus", and the
\* store requests succeeded
C7_Scenario ==
  /\ pc = "ran"
  /\ env.primary = "http" /\ env.status = 429
  /\ env.secondary = "ok"
  /\ Len(env.events) = 2
  /\ env.events[1].location = LocZoom
  /\ env.events[2].location = LocTillett
  /\ env.store = "ok"

\* what the scenario yields, but for the source label
C7_ScenarioResult ==
  /\ result.returned
  /\ result.fetched = 2
  /\ env.events[1].campus = "Online"
  /\ env.events[2].campus = "Livingston"
  /\ result.error = None
  /\ Persisted.consecutive_failures = 0

\* a run that returned without an error, having fetched
C7_Success == pc = "ran" /\ result.returned /\ result.error = None

\* C7 as stated: in the scenario run() returns fetched = 2, campus Online and
\* Livingston, source "feed", no error and the count is 0 afterwards; a
\* successful run reports "api" when the primary was used and "feed" when the
\* secondary was used.
C7_Original ==
  /\ C7_Scenario => (C7_ScenarioResult /\ result.source = "feed")
  /\ C7_Success =>
       /\ env.primary = "ok" => result.source = "api"
       /\ env.secondary = "ok" => result.source = "feed"

\* C7 amended: the same, with the label the code gives the secondary: "ical".
C7_SecondaryReportedAsIcal ==
  /\ C7_Scenario => (C7_ScenarioResult /\ result.source = "ical")
  /\ C7_Success =>
       /\ env.primary = "ok" => result.source = "api"
       /\ env.secondary = "ok" => result.source = "ical"

\* the scenario happened
C7_Witness == C7_Scenario /\ result.source = "ical" /\ result.inserted = 2

\* ------------------------------------------------------------------------
\* C8
\* ------------------------------------------------------------------------

\* C8: when a fetch returns no event, run() never writes to the store, and
\* the stored count of the source decides the outcome: at 50 or more the run
\* records a failure and returns an error; below 50 it records a success and
\* returns zero counts without an error.
C8_Step ==
  (RunStep /\ ~Persisted.kill_switch /\ FetchSucceeded(env') /\ env'.events = <<>>) =>
    /\ "upsert" \notin Range(calls')
    /\ store' = store
    /\ env'.store = "ok" =>
         IF _get_stored_count(store) >= 50
           THEN /\ Persisted'.consecutive_failures =
                     Persisted.consecutive_failures + 1
                /\ Persisted'.last_success = Persisted.last_success
                /\ result'.returned /\ result'.error # None
                /\ result'.fetched = 0 /\ result'.inserted = 0
                /\ result'.updated = 0
           ELSE /\ Persisted'.consecutive_failures = 0
                /\ Persisted'.last_success = isoformat(now)
                /\ result' = Summary(0, 0, 0, SourceUsed(env'), None)

C8_EmptyFetchDecidedByCount == [][C8_Step]_vars

\* no event fetched with exactly 50 rows stored: a failure
C8_Witness ==
  /\ pc = "ran"
  /\ FetchSucceeded(env) /\ env.events = <<>>
  /\ _get_stored_count(store) = 50
  /\ result = Summary(0, 0, 0, SourceUsed(env), SafetyMsg(50))
  /\ Persisted.consecutive_failures >= 1

\* ------------------------------------------------------------------------
\* C9
\* ------------------------------------------------------------------------

\* both fetches failed in a run that found no row stored for the source
C9_Scenario ==
  /\ pc = "ran"
  /\ BothFetchesFailed(env)
  /\ _get_stored_count(store) = 0

\* C9 as stated: when both fetches fail while 0 events are stored, run()
\* returns zero counts with no error and a success is recorded.
C9_Original ==
  C9_Scenario =>
    /\ result.returned /\ result.error = None
    /\ result.fetched = 0 /\ result.inserted = 0 /\ result.updated = 0
    /\ Persisted.consecutive_failures = 0
    /\ Persisted.last_success = isoformat(now)

\* C9 amended: when both fetches fail while 0 events are stored, run() returns
\* zero counts with the secondary's message as the error, a failure is
\* recorded (the count grows by one, last_success is left alone) and the
\* stored count is not queried.
C9_Step ==
  (RunStep /\ ~Persisted.kill_switch /\ BothFetchesFailed(env')
     /\ _get_stored_count(store) = 0) =>
    /\ result'.returned /\ result'.error = env'.msg /\ result'.error # None
    /\ result'.fetched = 0 /\ result'.inserted = 0 /\ result'.updated = 0
    /\ Persisted'.consecutive_failures = Persisted.consecutive_failures + 1
    /\ Persisted'.last_success = Persisted.last_success
    /\ Persisted'.last_attempt = isoformat(now)
    /\ "count" \notin Range(calls')

C9_TotalFailureBelowFloorIsFailure == [][C9_Step]_vars

\* the first run fails both fetches with the store empty
C9_Witness ==
  /\ C9_Scenario
  /\ store = {}
  /\ result.error = FeedExcMsg
  /\ Persisted.consecutive_failures = 1
  /\ Persisted.last_success = None

\* ------------------------------------------------------------------------
\* C10
\* ------------------------------------------------------------------------

\* C10: when the fetch yields k >= 1 events and the existing-id query or the
\* upsert raises, run() records one failure and returns an error result with
\* fetched = k, inserted = 0, updated = 0 and the source that was used.
C10_Step ==
  (RunStep /\ ~Persisted.kill_switch /\ FetchSucceeded(env')
     /\ Len(env'.events) >= 1 /\ ReconcileRaised(env')) =>
    /\ Persisted'.consecutive_failures = Persisted.consecutive_failures + 1
    /\ result' = Summary(Len(env'.events), 0, 0, SourceUsed(env'), result'.error)
    /\ result'.error # None
    /\ store' = store

C10_ReconcileFailureKeepsFetched == [][C10_Step]_vars

\* the existing-id query raised after the secondary returned two events
C10_Witness ==
  /\ pc = "ran"
  /\ env.store = "select_raises"
  /\ env.secondary = "ok" /\ Len(env.events) = 2
  /\ result = Summary(2, 0, 0, "ical", StoreExcMsg)

\* ------------------------------------------------------------------------
\* C11
\* ------------------------------------------------------------------------

\* C11 as stated: whatever the collaborators of a run do (each fetch and each
\* store request may succeed or raise), run() returns a structured result and
\* propagates no exception; a stored-count query that raises after a fetch
\* without events yields an error result.
C11_Original ==
  pc = "ran" =>
    /\ result.returned
    /\ env.store = "count_raises" => result.error # None

\* what the code does: run() returns a structured result unless the
\* stored-count query raises, and then the exception leaves run() with no
\* failure recorded and nothing saved
C11_Step ==
  RunStep =>
    /\ result'.returned <=> env'.store # "count_raises"
    /\ ~result'.returned =>
         /\ FetchSucceeded(env') /\ env'.events = <<>>
         /\ UNCHANGED <<file_status, file_doc, store>>
         /\ calls'[Len(calls')] = "count"

C11_OnlyCountQueryPropagates == [][C11_Step]_vars

\* the stored-count query raised and the exception left run()
C11_Witness ==
  /\ pc = "ran"
  /\ env.store = "count_raises"
  /\ ~result.returned
  /\ result = Propagated(StoreExcMsg)
  /\ file_status = "missing"

\* ------------------------------------------------------------------------
\* C12
\* ------------------------------------------------------------------------

\* the identifiers of a list of events, of a set of rows
IdsOf(events) == {events[i].event_id : i \in 1..Len(events)}

StoreIds(st) == {r.event_id : r \in st}

\* the first event of the list that carries the identifier
FirstWithId(events, id) ==
  events[CHOOSE i \in 1..Len(events) :
           /\ events[i].event_id = id
           /\ \A j \in 1..(i - 1) : events[j].event_id # id]

\* C12: for every non-empty batch, _upsert_events writes exactly one row per
\* distinct event_id, the first occurrence in input order, and reports
\* inserted = the distinct ids absent from the store before the call and
\* updated = the distinct ids present before it, so that inserted + updated
\* is the deduplicated count.
C12_Step ==
  (/\ probe = NoProbe
   /\ probe'.fn = "_upsert_events"
   /\ probe'.arg # <<>>
   /\ ~probe'.out.raised) =>
    LET events == probe'.arg
        ids    == IdsOf(events)
    IN  /\ store' = {r \in store : r.event_id \notin ids}
                      \cup {FirstWithId(events, id) : id \in ids}
        /\ \A id \in ids : Cardinality({r \in store' : r.event_id = id}) = 1
        /\ probe'.out.inserted = Cardinality(ids \ StoreIds(store))
        /\ probe'.out.updated = Cardinality(ids \cap StoreIds(store))
        /\ probe'.out.inserted + probe'.out.updated = Cardinality(ids)

C12_OneRowPerDistinctId == [][C12_Step]_vars

\* a batch of three events with two identifiers: the first occurrence of the
\* repeated one is the row stored, one insert and one update are reported
C12_Witness ==
  /\ probe.fn = "_upsert_events"
  /\ Len(probe.arg) = 3
  /\ Cardinality(IdsOf(probe.arg)) = 2
  /\ probe.arg[1].event_id = probe.arg[2].event_id
  /\ probe.arg[1].location = LocZoom /\ probe.arg[2].location = LocTillett
  /\ probe.arg[1] \in store /\ probe.arg[2] \notin store
  /\ probe.out = [raised |-> FALSE, inserted |-> 1, updated |-> 1]

\* ------------------------------------------------------------------------
\* C13
\* ------------------------------------------------------------------------

\* every event of the list is stored already: a row of the same source with
\* the same title and start time is in the table, as an earlier successful run
\* that fetched the same raw events leaves it
FetchedBefore(events, st) ==
  \A i \in 1..Len(events) :
    \E r \in st : /\ r.title = events[i].title
                  /\ r.start_time = events[i].start_time
                  /\ r.source = events[i].source

\* C13: a successful run that fetches what an earlier successful run fetched
\* (same titles and start times) reports inserted = 0 and updated = the number
\* of distinct event ids, and leaves the set of event_ids of the store as it
\* was: no new row, no duplicate row.
C13_Step ==
  (/\ RunStep
   /\ result'.returned /\ result'.error = None
   /\ env'.events # <<>>
   /\ FetchedBefore(env'.events, store)) =>
    /\ result'.inserted = 0
    /\ result'.updated = Cardinality(IdsOf(env'.events))
    /\ StoreIds(store') = StoreIds(store)
    /\ Cardinality(store') = Cardinality(store)

C13_SecondRunOnlyUpdates == [][C13_Step]_vars

\* a later run found both events of the calendar feed stored and replaced them
C13_Witness ==
  /\ pc = "ran"
  /\ now = 2
  /\ result = Summary(2, 0, 2, "ical", None)
  /\ \A i \in 1..Len(env.events) : env.events[i] \in store
  /\ Cardinality(store) = 2

\* ------------------------------------------------------------------------
\* C14
\* ------------------------------------------------------------------------

\* a call of one of the two normalisers
NormalizerCalled ==
  probe.fn \in {"_normalize_api_event", "_normalize_ical_event"}

\* title and start of a raw record, by the normaliser that reads it
RawTitle(fn, raw) == IF fn = "_normalize_api_event" THEN raw.name ELSE raw.SUMMARY

RawStart(fn, raw) == IF fn = "_normalize_api_event" THEN raw.startsOn ELSE raw.DTSTART

\* a title with nothing but whitespace in it, or no title at all
BlankTitle(title) ==
  \/ title = None
  \/ \A i \in 1..Len(title) : title[i] \in WhitespaceChars

\* the title without its whitespace margins
TrimmedTitle(title) ==
  LET inner == {i \in 1..Len(title) : title[i] \notin WhitespaceChars}
  IN  [k \in 1..Cardinality({i \in 1..Len(title) :
                               \E a \in inner : \E b \in inner : a <= i /\ i <= b})
         |-> title[k - 1 + CHOOSE a \in inner : \A b \in inner : a <= b]]

\* a start value that is absent or that cannot be parsed
NoStart(dt) == dt.kind = "none" \/ (dt.kind = "text" /\ ~dt.parseable)

\* the UTC instant a start value denotes, in hours: a date is its midnight, a
\* value without zone is read as UTC, an offset is subtracted
UtcInstant(dt) ==
  IF dt.kind = "date" THEN 24 * dt.day
  ELSE 24 * dt.day + dt.hour - (IF dt.aware THEN dt.off ELSE 0)

\* every raw record of either source with the event it normalises to
NormalizedInputs ==
  { [fn |-> "_normalize_api_event", raw |-> r, out |-> _normalize_api_event(r, now)] :
      r \in ApiInputs }
  \cup
  { [fn |-> "_normalize_ical_event", raw |-> r, out |-> _normalize_ical_event(r, now)] :
      r \in IcalInputs }

\* C14: event_id depends only on (title, start_time, source): two raw records
\* with the same trimmed title and the same UTC start time normalise to the
\* same event_id, through either normaliser and whatever their other fields
\* are; records that differ in title or in start time get different ids.
C14_EventIdFromTitleAndStart ==
  (NormalizerCalled /\ probe.out # Dropped) =>
    \A other \in NormalizedInputs :
      other.out # Dropped =>
        /\ (/\ TrimmedTitle(RawTitle(other.fn, other.raw))
                 = TrimmedTitle(RawTitle(probe.fn, probe.arg))
            /\ UtcInstant(RawStart(other.fn, other.raw))
                 = UtcInstant(RawStart(probe.fn, probe.arg)))
           <=> other.out.event_id = probe.out.event_id
        /\ (other.out.title = probe.out.title
              /\ other.out.start_time = probe.out.start_time
              /\ other.out.source = probe.out.source)
           <=> other.out.event_id = probe.out.event_id

\* " Chess " at 13:00-05:00 in the feed gets the id of "Chess" at 18:00Z of
\* the API, which has another location and another end time
C14_Witness ==
  /\ probe.fn = "_normalize_ical_event"
  /\ probe.arg = IcalRaw(TitleChess, RawTime("datetime", TRUE, 1, 13, TRUE, -5),
                         RawTime("datetime", TRUE, 2, 2, TRUE, 0), LocZoom)
  /\ probe.out # Dropped
  /\ probe.out.event_id =
       _normalize_api_event(
         ApiRaw(TitleChessTrimmed, RawTime("text", TRUE, 1, 18, TRUE, 0),
                NoTime, None), now).event_id

\* ------------------------------------------------------------------------
\* C15
\* ------------------------------------------------------------------------

\* C15: both normalisers yield no event for a raw record whose title is
\* absent, empty or whitespace only, and none for a record whose start time is
\* absent or unparseable; every event they yield has a non-empty title and a
\* start_time; an absent end time causes no drop.
C15_DropsWithoutTitleOrStart ==
  NormalizerCalled =>
    /\ probe.out = Dropped
         <=> \/ BlankTitle(RawTitle(probe.fn, probe.arg))
             \/ NoStart(RawStart(probe.fn, probe.arg))
    /\ probe.out # Dropped =>
         /\ probe.out.title # <<>> /\ probe.out.title # None
         /\ ~BlankTitle(probe.out.title)
         /\ probe.out.start_time # None

\* a record with a title and a start but no end time is kept, end_time absent
C15_Witness ==
  /\ probe.fn = "_normalize_api_event"
  /\ probe.arg.name = TitleMixer
  /\ probe.arg.endsOn = NoTime
  /\ probe.out # Dropped
  /\ probe.out.title = TitleMixer
  /\ probe.out.end_time = None
  /\ probe.out.start_time = isoformat(42)

\* ------------------------------------------------------------------------
\* C16
\* ------------------------------------------------------------------------

\* the rules the fragments of a location trigger
RulesOf(parts) == {parts[i].rule : i \in 1..Len(parts)}

\* the label the fixed order of the rules gives a location, read off the
\* fragments it is made of
FirstRuleLabel(parts) ==
  IF parts = <<>> THEN "Unknown"
  ELSE IF parts[1].rule = "tbd" THEN "Unknown"
  ELSE IF "online" \in RulesOf(parts) THEN "Online"
  ELSE IF "College Ave" \in RulesOf(parts) THEN "College Ave"
  ELSE IF "Livingston" \in RulesOf(parts) THEN "Livingston"
  ELSE IF "Busch" \in RulesOf(parts) THEN "Busch"
  ELSE IF "Cook/Douglass" \in RulesOf(parts) THEN "Cook/Douglass"
  ELSE IF "off" \in RulesOf(parts) THEN "Off-Campus"
  ELSE "Unknown"

\* C16: infer_campus returns the label of the first matching rule in the
\* order: absent or empty -> Unknown; starts with a TBD marker, in any case ->
\* Unknown; online keyword -> Online; campus keyword, campuses in the order
\* College Ave, Livingston, Busch, Cook/Douglass -> that campus; off-campus
\* venue -> Off-Campus; otherwise Unknown.  A location that starts with a TBD
\* marker is Unknown whatever else it contains.
C16_FirstMatchingRuleWins ==
  probe.fn = "infer_campus" =>
    /\ probe.out = FirstRuleLabel(probe.arg.parts)
    /\ (probe.arg.parts # <<>> /\ probe.arg.parts[1].rule = "tbd")
         => probe.out = "Unknown"

\* "TBD, Newark, Zoom": a TBD marker in front of an off-campus venue and an
\* online keyword
C16_Witness ==
  /\ probe.fn = "infer_campus"
  /\ Len(probe.arg.parts) = 3
  /\ probe.arg.parts[1].text = <<"T","B","D">>
  /\ probe.arg.parts[2].rule = "off"
  /\ probe.arg.parts[3].rule = "online"
  /\ probe.out = "Unknown"

\* ------------------------------------------------------------------------
\* C17
\* ------------------------------------------------------------------------

\* C17: after the administrative reset the persisted entry has kill_switch =
\* false and consecutive_failures = 0, whatever it was before (blocked
\* included), its timestamps are kept, and a run that starts from a state with
\* the switch off calls the primary fetch instead of returning the blocked
\* result.
C17_Step ==
  /\ ResetStep =>
       /\ Persisted'.kill_switch = FALSE
       /\ Persisted'.consecutive_failures = 0
       /\ Persisted'.last_success = Persisted.last_success
       /\ Persisted'.last_attempt = Persisted.last_attempt
       /\ store' = store
  /\ (RunStep /\ ~Persisted.kill_switch) =>
       /\ calls' # <<>> /\ calls'[1] = "api"
       /\ \A n \in 0..(MAX_FAILURES + 1) : result' # BlockedResult(n)

C17_ResetClearsAndUnblocks == [][C17_Step]_vars

\* the entry after a reset: cleared although a failure was recorded and no
\* success ever was
C17_Witness ==
  /\ pc = "idle"
  /\ file_status = "valid"
  /\ Persisted.kill_switch = FALSE
  /\ Persisted.consecutive_failures = 0
  /\ Persisted.last_success = None
  /\ Persisted.last_attempt # None

\* ------------------------------------------------------------------------
\* C18
\* ------------------------------------------------------------------------

\* position k of s lies in a tag-like substring: a "<", one character or more
\* none of which is ">", and a ">"
InTag(s, k) ==
  \E i \in 1..k : \E j \in k..Len(s) :
    /\ s[i] = "<" /\ s[j] = ">" /\ j >= i + 2
    /\ \A m \in (i + 1)..(j - 1) : s[m] # ">"

\* the positions of the characters that stay: outside the tags, no whitespace
KeptPositions(s) ==
  {k \in 1..Len(s) : ~InTag(s, k) /\ s[k] \notin WhitespaceChars}

\* the same positions in increasing order
KeptInOrder(s) ==
  [n \in 1..Cardinality(KeptPositions(s)) |->
     CHOOSE p \in KeptPositions(s) :
       Cardinality({q \in KeptPositions(s) : q <= p}) = n]

\* the kept characters in order, one space between two of them where a
\* position of seps lies between the two
RECURSIVE JoinKept(_, _, _)
JoinKept(s, ps, seps) ==
  IF ps = <<>> THEN <<>>
  ELSE IF Len(ps) = 1 THEN <<s[ps[1]]>>
  ELSE <<s[ps[1]]>>
         \o (IF \E m \in (ps[1] + 1)..(ps[2] - 1) : m \in seps
               THEN <<" ">> ELSE <<>>)
         \o JoinKept(s, Tail(ps), seps)

\* the sanitised text when the positions of seps separate: absent when no
\* character stays
Sanitized(s, seps) ==
  IF s = None THEN None
  ELSE IF KeptPositions(s) = {} THEN None
  ELSE JoinKept(s, KeptInOrder(s), seps)

\* C18 as stated: the result is the input with every tag-like substring
\* removed, every run of whitespace collapsed to one space and the margins
\* trimmed, the text on both sides of a removed tag joined as the removal
\* leaves it; absent for an absent, all-markup or all-whitespace input.
C18_Original ==
  probe.fn = "strip_html" =>
    probe.out =
      Sanitized(probe.arg,
                {m \in 1..Len(probe.arg) :
                   probe.arg[m] \in WhitespaceChars /\ ~InTag(probe.arg, m)})

\* C18 amended: every tag-like substring is replaced by a space before the
\* runs of whitespace are collapsed and the margins trimmed, so the text on
\* both sides of a tag is separated by one space; absent for an absent,
\* all-markup or all-whitespace input, never an empty string.
C18_TagsBecomeSpaces ==
  probe.fn = "strip_html" =>
    /\ probe.out =
         Sanitized(probe.arg,
                   {m \in 1..Len(probe.arg) :
                      probe.arg[m] \in WhitespaceChars \/ InTag(probe.arg, m)})
    /\ probe.out # <<>>

\* "a<b>b" becomes "a b"
C18_Witness ==
  /\ probe.fn = "strip_html"
  /\ probe.arg = <<"a", "<", "b", ">", "b">>
  /\ probe.out = <<"a", " ", "b">>

\* ------------------------------------------------------------------------
\* C19
\* ------------------------------------------------------------------------

\* the number of requests in a log
Gets(log) == Cardinality({i \in 1..Len(log) : log[i][1] = "get"})

\* the log of n requests at offsets 0, PAGE_SIZE, 2*PAGE_SIZE, ..., a sleep
\* before each but the first
RECURSIVE PagedLog(_)
PagedLog(n) ==
  IF n = 0 THEN <<>>
  ELSE IF n = 1 THEN << <<"get", 0>> >>
  ELSE PagedLog(n - 1) \o << <<"sleep", PAGE_DELAY>>, <<"get", (n - 1) * PAGE_SIZE>> >>

\* the last page fetched ends the loop: the accumulated events have reached
\* the total, or the page held no raw record
LastPageEnds ==
  \/ Len(pager.events) >= pager.total
  \/ ~pager.body.has_value
  \/ pager.body.value = <<>>

\* the safety half of C19
C19_Inv ==
  pager.pc # "idle" =>
    /\ pager.log = PagedLog(Gets(pager.log))
    /\ pager.pc = "loop" => Gets(pager.log) = pager.page
    /\ pager.pc = "returned" => Gets(pager.log) = pager.page
    /\ pager.pc = "raised" => Gets(pager.log) = pager.page + 1
    /\ (pager.pc = "loop" /\ pager.page >= 1) => ~LastPageEnds
    /\ pager.pc = "returned" => LastPageEnds
    /\ Gets(pager.log) <= pager.holds + 1

\* C19: the paginator requests the offsets 0, PAGE_SIZE, 2*PAGE_SIZE, ... in
\* order, sleeps before every request but the first, and stops right after the
\* first page at which the accumulated events have reached the reported total
\* or which held no raw record; so it ends (returns or raises) for every
\* server that sends an empty page once the offset is past its records, also
\* when dropped records keep the accumulated count below the total.
C19_PaginatorStops ==
  /\ []C19_Inv
  /\ (pager.pc = "loop") ~> (pager.pc \in {"returned", "raised"})

\* two records on the first page, one of them dropped, a total of 2: the
\* paginator stops on the empty second page with one event
C19_Witness ==
  /\ pager.pc = "returned"
  /\ pager.holds = 1
  /\ Len(pager.events) = 1
  /\ pager.total = 2
  /\ pager.raw_list = <<>>
  /\ pager.log = << <<"get", 0>>, <<"sleep", 2>>, <<"get", 100>> >>

\* ------------------------------------------------------------------------
\* C20
\* ------------------------------------------------------------------------

\* the paginator has read a JSON body
BodyRead == pager.pc # "idle" /\ pager.body.shape \in {"object", "list"}

\* the value of a count that is present
CountValue(c) == CHOOSE n \in c : TRUE

\* C20 as stated: the paginator accepts both shapes of the body without
\* raising; for an object the raw records are the list under the known key
\* and the total is taken from one of the two total keys, or is the length of
\* the list if neither is present; for a list at the root that list holds the
\* raw records and its length is the total.
C20_Original ==
  BodyRead =>
    /\ pager.exc = "none"
    /\ pager.body.shape = "object" =>
         /\ pager.raw_list = pager.body.value
         /\ IF pager.body.totalItems \cup pager.body.odata_count # {}
              THEN pager.total \in pager.body.totalItems \cup pager.body.odata_count
              ELSE pager.total = Len(pager.body.value)
    /\ pager.body.shape = "list" =>
         /\ pager.raw_list = pager.body.value
         /\ pager.total = Len(pager.body.value)

\* what the code does: a list at the root makes `data.get` raise
\* AttributeError before any record is read; for an object the raw records are
\* the list under "value" (none if the key is missing) and the total is the
\* first of totalItems and @odata.count that is present and not 0, else the
\* length of the list
C20_ListRootRaises ==
  BodyRead =>
    /\ pager.body.shape = "list" <=> pager.exc = "AttributeError"
    /\ pager.body.shape = "list" => pager.pc = "raised"
    /\ pager.body.shape = "object" =>
         /\ pager.exc = "none"
         /\ pager.raw_list = pager.body.value
         /\ pager.total =
              IF \E n \in pager.body.totalItems : n > 0
                THEN CountValue(pager.body.totalItems)
              ELSE IF \E n \in pager.body.odata_count : n > 0
                THEN CountValue(pager.body.odata_count)
              ELSE Len(pager.body.value)

\* the first body is a list of two records at the root: AttributeError
C20_Witness ==
  /\ pager.pc = "raised"
  /\ pager.exc = "AttributeError"
  /\ pager.body.shape = "list"
  /\ Len(pager.body.value) = 2
  /\ pager.page = 0
  /\ pager.events = <<>>

\* ------------------------------------------------------------------------
\* C21
\* ------------------------------------------------------------------------

\* a step that is one invocation of run() cut short by a kill
KillStep == pc = "idle" /\ pc' = "killed"

\* the file after the step is the file before it
FileUntouched == file_status' = file_status /\ file_doc' = file_doc

\* the file after the step holds the complete document of the finished run
FileComplete ==
  /\ file_status' = "valid"
  /\ file_doc' \in {_record_failure(Persisted, now), _record_success(Persisted, now)}

\* C21 as stated: if the process is killed at any point of a run, the write
\* of the state included, the persisted state afterwards is exactly the state
\* before the run or exactly the complete state after it, never a partial or
\* unparseable document; so the next run never loads a defaulted state that
\* drops an active kill switch or an accumulated failure count.
C21_Step ==
  KillStep =>
    /\ file_status' # "corrupt"
    /\ FileUntouched \/ FileComplete
    /\ Persisted' = DefaultState => Persisted = DefaultState

C21_Original == [][C21_Step]_vars

\* what the code does: a kill leaves the file untouched, complete, or, when
\* it falls into write_text, without a JSON document, and then _load_state
\* gives the default entry; a run that is not killed never leaves such a file
C21_CodeStep ==
  /\ KillStep =>
       \/ FileUntouched
       \/ FileComplete
       \/ /\ file_status' = "corrupt"
          /\ Persisted' = DefaultState
          /\ file_doc' \in {_record_failure(Persisted, now),
                            _record_success(Persisted, now)}
  /\ (RunStep \/ ResetStep) => (file_status' = "corrupt" => file_status = "corrupt")

C21_KilledWriteLoadsDefault == [][C21_CodeStep]_vars

\* the kill fell into the write of the third failure: the file holds no
\* document, and the next run will load a count of 0 with the switch off
C21_Witness ==
  /\ pc = "killed"
  /\ file_status = "corrupt"
  /\ file_doc.consecutive_failures = 3 /\ file_doc.kill_switch
  /\ Persisted = DefaultState

\* ------------------------------------------------------------------------
\* C22
\* ------------------------------------------------------------------------

\* C22: in every persisted state reachable from the default state by runs
\* (with any fetch and store outcomes) and resets, consecutive_failures is
\* between 0 and MAX_FAILURES, and kill_switch is true exactly when
\* consecutive_failures has reached MAX_FAILURES.
C22_CountAndSwitchAgree ==
  /\ Persisted.consecutive_failures \in 0..MAX_FAILURES
  /\ Persisted.kill_switch <=> Persisted.consecutive_failures >= MAX_FAILURES

\* a run blocked at the bound, after a success and MAX_FAILURES failures: the
\* count stays at MAX_FAILURES with the switch on
C22_Witness ==
  /\ pc = "ran"
  /\ Persisted.last_success # None
  /\ Persisted.consecutive_failures = MAX_FAILURES
  /\ Persisted.kill_switch
  /\ result = BlockedResult(MAX_FAILURES)

====
